---------------------------- MODULE Spec2Model ----------------------------
(***************************************************************************)
(* Client-side message routing core of tab-cli                            *)
(* (tab-cli/src/service/client.rs).                                        *)
(*                                                                         *)
(* Three tasks run on top of the ClientBus:                                *)
(*   request_tab  (TabRequester)          ClientService::spawn             *)
(*   recv         (DaemonResponseRouter)  WebsocketMessageService::spawn   *)
(*   terminal     (TerminalInputRouter)   TerminalMessageService::spawn    *)
(*                                                                         *)
(* A step of a task is the code between two .await points: the borrow()s   *)
(* and the synchronous broadcast/watch sends run without suspension, the   *)
(* mpsc sends (`.send(..).await`) are steps of their own that wait for     *)
(* room in the queue.  A send returns Err when the other end of its        *)
(* channel has been dropped, which the environment decides; the `?` after  *)
(* it then ends the task.                                                  *)
(*                                                                         *)
(* recv shares no channel with the other two tasks, and request_tab and    *)
(* terminal share the Request queue only; TabState and TerminalSizeState   *)
(* are written by the environment alone.  SpecWs, SpecReq and SpecTerm are  *)
(* the runs in which the scheduler polls one task only (the other two stay *)
(* suspended at their first await); in Spec the polled task is any of the  *)
(* three and the ClientService may be dropped.  SpecReqTerm polls           *)
(* request_tab and terminal in any order on their shared Request queue,    *)
(* SpecIndep is SpecReqTerm together with SpecWs, SpecSpawn follows         *)
(* ClientService::spawn step by step with request_tab already running, and *)
(* SpecWsFair is the recv task under fair scheduling.                      *)
(***************************************************************************)
EXTENDS Naturals, Integers, Sequences, FiniteSets, TLC

\* ------------------------------------------------------------- bounds
\* capacity of every queued (mpsc) channel
CapQueue == 1
\* capacity of every broadcast channel (oldest-drop when a subscriber lags)
CapBroadcast == 1

\* ------------------------------------------------------------- values
TabIds == {1, 2}
Names == {"a", "b"}
Data == {"x", "y"}
Sizes == {<<80, 24>>, <<100, 30>>}

Meta(i) == [id |-> i, name |-> IF i = 1 THEN "a" ELSE "b"]
Metas == {Meta(i) : i \in TabIds}

\* TabState: None | Awaiting(name) | Selected(id, metadata)
TabStateNone == <<"None">>
Awaiting(n) == <<"Awaiting", n>>
Selected(i) == <<"Selected", i, Meta(i)>>
TabStates == {TabStateNone} \cup {Awaiting(n) : n \in Names}
                 \cup {Selected(i) : i \in TabIds}

\* Response: Init{tabs} | Output(tab_id, stdout) | TabUpdate(meta)
\*           | TabList(tabs) | TabTerminated(id)
InitTabs == UNION {{f \in [S -> Metas] : \A i \in S : f[i].id = i} : S \in SUBSET TabIds}
TabLists == {<<>>, <<Meta(1)>>, <<Meta(2)>>}
Responses == {<<"Init", t>> : t \in InitTabs}
               \cup {<<"Output", i, d>> : i \in TabIds, d \in Data}
               \cup {<<"TabUpdate", m>> : m \in Metas}
               \cup {<<"TabList", l>> : l \in TabLists}
               \cup {<<"TabTerminated", i>> : i \in TabIds}

\* TerminalSend: Stdin(bytes) | Resize(dims); the tasks never look into a Resize,
\* one value stands for all
TerminalSends == {<<"Stdin", d>> : d \in Data} \cup {<<"Resize", <<100, 30>>>>}

NoMsg == <<"none">>

Tasks == {"request_tab", "recv", "terminal"}

VARIABLES
    tabState,        \* latched TabState (watch channel value)
    reqSeen,         \* request_tab's watch receiver has seen the current version
    terminalSize,    \* latched TerminalSizeState
    available,       \* latched TabStateAvailable
    rxTerminal,      \* TerminalSend broadcast: events retained for terminal's receiver
    termLagged,      \* terminal's receiver was overrun (its next recv is Err(Lagged))
    requestQ,        \* Request queue (to the daemon)
    tabsQ,           \* TabsRecv queue: messages in flight
    tabTerminatedQ,  \* TabTerminated queue: messages in flight
    shutdownQ,       \* MainShutdown queue: messages in flight
    terminalRecvB,   \* TerminalRecv broadcast: messages retained for the tty subscriber
    cancelled,       \* tasks whose lifeline was dropped
    spawnPc,         \* position of ClientService::spawn
    spawned,         \* tasks that try_task has spawned
    scheduled,       \* the task the scheduler polls in this run
    \* recv: position, response being handled, TabState when it was taken, TabState
    \* borrowed by the handler, messages emitted for it, tabs of the last TabList
    \* it handled
    wsPc, wsMsg, wsAtDispatch, wsAtBorrow, wsEmit, wsLastTabList,
    \* request_tab: position, update being handled, size borrowed for it, request
    \* awaiting its send, requests emitted for the update
    reqPc, reqUpdate, reqSize, reqPending, reqEmit,
    \* terminal: position, event being handled, TabState borrowed for it, request
    \* awaiting its send, requests emitted for the event
    termPc, termMsg, termAtDispatch, termPending, termEmit

envVars == <<tabState, reqSeen, terminalSize, rxTerminal, termLagged>>
chanVars == <<available, requestQ, tabsQ, tabTerminatedQ, shutdownQ, terminalRecvB>>
wsVars == <<wsPc, wsMsg, wsAtDispatch, wsAtBorrow, wsEmit, wsLastTabList>>
reqVars == <<reqPc, reqUpdate, reqSize, reqPending, reqEmit>>
termVars == <<termPc, termMsg, termAtDispatch, termPending, termEmit>>
taskVars == <<cancelled, scheduled, spawnPc, spawned>>
vars == <<envVars, chanVars, wsVars, reqVars, termVars, taskVars>>

\* ------------------------------------------------------------- channels
\* TabState::is_selected(&id): the state is Selected(id, _)
is_selected(ts, id) == ts[1] = "Selected" /\ ts[2] = id

\* queued (mpsc) channel holding n messages: a send completes when there is room
HasRoom(n) == n < CapQueue

\* broadcast channel: a send never waits; a full subscriber loses its oldest message
BroadcastSend(buf, m) ==
    IF Len(buf) < CapBroadcast THEN Append(buf, m) ELSE Append(Tail(buf), m)

\* latched (watch) channel: the new value replaces the old one
WatchBroadcast(old, new) == new

\* the iteration orders of `init.tabs`
Orders(tabs) ==
    {o \in [1..Cardinality(DOMAIN tabs) -> DOMAIN tabs] :
        \A i, j \in DOMAIN o : i # j => o[i] # o[j]}

\* a task runs from its try_task until its lifeline is dropped
Running(t) == t \in spawned /\ t \notin cancelled

\* ------------------------------------------------------------- recv task
\* (DaemonResponseRouter, WebsocketMessageService::spawn)

wsFrame == <<envVars, reqVars, termVars, taskVars, requestQ, wsLastTabList>>

\* (mutant) a failed send is passed over and the loop goes on with the next response
WsTakes_afterError(r) ==
    /\ Running("recv")
    /\ wsPc \in {"recv", "err"}
    /\ wsMsg' = r

\* `while let Some(msg) = rx_websocket.recv().await` yields response r
WsTakes(r) ==
    /\ Running("recv")
    /\ wsPc = "recv"
    /\ wsMsg' = r

\* Response::Init(init): await the TabsRecv::Init send
WsRecvInit ==
    /\ \E r \in Responses : r[1] = "Init" /\ WsTakes(r)
    /\ wsPc' = "InitSendTabs"
    /\ wsEmit' = <<>>
    /\ UNCHANGED <<wsFrame, available, tabsQ, tabTerminatedQ, shutdownQ, terminalRecvB>>
    /\ UNCHANGED <<wsAtDispatch, wsAtBorrow>>

\* (mutant) publishes the metadata before the tab list is sent
InitEmits_metadataFirst(tabs, o) ==
    [i \in DOMAIN o |-> <<"TabMetadata", tabs[o[i]]>>] \o <<<<"TabsRecv", <<"Init", tabs>>>>>>

\* the messages of an Init whose tabs are iterated in order o: the tab list, then
\* every metadata
InitEmits(tabs, o) ==
    <<<<"TabsRecv", <<"Init", tabs>>>>>> \o [i \in DOMAIN o |-> <<"TabMetadata", tabs[o[i]]>>]

\* tx_tabs.send(TabsRecv::Init(tabs)) completes, then every metadata is published
\* (a TabMetadata send fails when the broadcast has no subscriber left)
WsInitSendTabs ==
    /\ Running("recv")
    /\ wsPc = "InitSendTabs"
    /\ \/ /\ wsPc' = "err"
          /\ UNCHANGED <<tabsQ, wsEmit>>
       \/ /\ HasRoom(tabsQ)
          /\ tabsQ' = tabsQ + 1
          /\ \E o \in Orders(wsMsg[2]) :
               \/ /\ wsPc' = "handled"
                  /\ wsEmit' = InitEmits(wsMsg[2], o)
               \/ /\ o # <<>>
                  /\ wsPc' = "err"
                  /\ wsEmit' = <<InitEmits(wsMsg[2], o)[1]>>
    /\ UNCHANGED <<wsFrame, available, tabTerminatedQ, shutdownQ, terminalRecvB>>
    /\ UNCHANGED <<wsMsg, wsAtDispatch, wsAtBorrow>>

\* (mutant) forwards the output of every tab while some tab is selected
RouteOutput_anyTab(ts, tab_id, data) ==
    IF ts[1] = "Selected" THEN <<<<"Stdout", data>>>> ELSE <<>>

\* what an Output(tab_id, stdout) puts on TerminalRecv under TabState ts
RouteOutput(ts, tab_id, data) ==
    IF is_selected(ts, tab_id) THEN <<<<"Stdout", data>>>> ELSE <<>>

\* (mutant) the chunk of the selected tab is sent twice
WsRecvOutput_twice ==
    /\ \E r \in Responses :
         /\ r[1] = "Output"
         /\ WsTakes(r)
         /\ LET out == RouteOutput(tabState, r[2], r[3]) IN
            \/ /\ out = <<>>
               /\ wsEmit' = <<>>
               /\ UNCHANGED terminalRecvB
            \/ /\ out # <<>>
               /\ terminalRecvB' = BroadcastSend(BroadcastSend(terminalRecvB, out[1]), out[1])
               /\ wsEmit' = <<<<"TerminalRecv", out[1]>>, <<"TerminalRecv", out[1]>>>>
    /\ wsPc' = "handled"
    /\ wsAtDispatch' = tabState
    /\ wsAtBorrow' = tabState
    /\ UNCHANGED <<wsFrame, available, tabsQ, tabTerminatedQ, shutdownQ>>

\* Response::Output(tab_id, stdout)
WsRecvOutput ==
    /\ \E r \in Responses :
         /\ r[1] = "Output"
         /\ WsTakes(r)
         /\ LET out == RouteOutput(tabState, r[2], r[3]) IN
            \/ /\ out = <<>>
               /\ wsPc' = "handled"
               /\ wsEmit' = <<>>
               /\ UNCHANGED terminalRecvB
            \/ /\ out # <<>>
               /\ wsPc' = "handled"
               /\ terminalRecvB' = BroadcastSend(terminalRecvB, out[1])
               /\ wsEmit' = <<<<"TerminalRecv", out[1]>>>>
            \/ /\ out # <<>>
               /\ wsPc' = "err"
               /\ wsEmit' = <<>>
               /\ UNCHANGED terminalRecvB
    /\ wsAtDispatch' = tabState
    /\ wsAtBorrow' = tabState
    /\ UNCHANGED <<wsFrame, available, tabsQ, tabTerminatedQ, shutdownQ>>

\* (mutant) awaits the TabsRecv::Update send without publishing the metadata first
WsRecvTabUpdate_noPublish ==
    /\ \E r \in Responses : r[1] = "TabUpdate" /\ WsTakes(r)
    /\ wsPc' = "UpdateSendTabs"
    /\ wsEmit' = <<>>
    /\ UNCHANGED <<wsFrame, available, tabsQ, tabTerminatedQ, shutdownQ, terminalRecvB>>
    /\ UNCHANGED <<wsAtDispatch, wsAtBorrow>>

\* Response::TabUpdate(tab): publish the metadata, then await the TabsRecv::Update send
WsRecvTabUpdate ==
    /\ \E r \in Responses :
         /\ r[1] = "TabUpdate"
         /\ WsTakes(r)
         /\ \/ /\ wsPc' = "UpdateSendTabs"
               /\ wsEmit' = <<<<"TabMetadata", r[2]>>>>
            \/ /\ wsPc' = "err"
               /\ wsEmit' = <<>>
    /\ UNCHANGED <<wsFrame, available, tabsQ, tabTerminatedQ, shutdownQ, terminalRecvB>>
    /\ UNCHANGED <<wsAtDispatch, wsAtBorrow>>

\* tx_tabs.send(TabsRecv::Update(tab)) completes
WsUpdateSendTabs ==
    /\ Running("recv")
    /\ wsPc = "UpdateSendTabs"
    /\ \/ /\ HasRoom(tabsQ)
          /\ tabsQ' = tabsQ + 1
          /\ wsEmit' = Append(wsEmit, <<"TabsRecv", <<"Update", wsMsg[2]>>>>)
          /\ wsPc' = "handled"
       \/ /\ wsPc' = "err"
          /\ UNCHANGED <<tabsQ, wsEmit>>
    /\ UNCHANGED <<wsFrame, available, tabTerminatedQ, shutdownQ, terminalRecvB>>
    /\ UNCHANGED <<wsMsg, wsAtDispatch, wsAtBorrow>>

\* (mutant) adds the tabs of the TabList to the latched ones
WsRecvTabList_merge ==
    /\ \E r \in Responses :
         /\ r[1] = "TabList"
         /\ WsTakes(r)
         /\ wsPc' = "handled"
         /\ available' = available \o r[2]
         /\ wsEmit' = <<<<"TabStateAvailable", r[2]>>>>
         /\ wsLastTabList' = r[2]
    /\ UNCHANGED <<envVars, reqVars, termVars, taskVars, requestQ>>
    /\ UNCHANGED <<tabsQ, tabTerminatedQ, shutdownQ, terminalRecvB>>
    /\ UNCHANGED <<wsAtDispatch, wsAtBorrow>>

\* Response::TabList(tabs): tx_available_tabs.broadcast(TabStateAvailable(tabs))
WsRecvTabList ==
    /\ \E r \in Responses :
         /\ r[1] = "TabList"
         /\ WsTakes(r)
         /\ \/ /\ wsPc' = "handled"
               /\ available' = WatchBroadcast(available, r[2])
               /\ wsEmit' = <<<<"TabStateAvailable", r[2]>>>>
               /\ wsLastTabList' = r[2]
            \/ /\ wsPc' = "err"
               /\ wsEmit' = <<>>
               /\ UNCHANGED <<available, wsLastTabList>>
    /\ UNCHANGED <<envVars, reqVars, termVars, taskVars, requestQ>>
    /\ UNCHANGED <<tabsQ, tabTerminatedQ, shutdownQ, terminalRecvB>>
    /\ UNCHANGED <<wsAtDispatch, wsAtBorrow>>

\* (mutant) goes to the TabTerminated send without the TabsRecv::Terminated send
WsRecvTabTerminated_noTabsRecv ==
    /\ \E r \in Responses : r[1] = "TabTerminated" /\ WsTakes(r)
    /\ wsPc' = "TermSendTerminated"
    /\ wsEmit' = <<>>
    /\ wsAtDispatch' = tabState
    /\ UNCHANGED <<wsFrame, available, tabsQ, tabTerminatedQ, shutdownQ, terminalRecvB>>
    /\ UNCHANGED wsAtBorrow

\* Response::TabTerminated(id): await the TabsRecv::Terminated send
WsRecvTabTerminated ==
    /\ \E r \in Responses : r[1] = "TabTerminated" /\ WsTakes(r)
    /\ wsPc' = "TermSendTabs"
    /\ wsEmit' = <<>>
    /\ wsAtDispatch' = tabState
    /\ UNCHANGED <<wsFrame, available, tabsQ, tabTerminatedQ, shutdownQ, terminalRecvB>>
    /\ UNCHANGED wsAtBorrow

\* (mutant) the send also waits for room in the Request queue
WsTermSendTabs_needsRequestRoom ==
    /\ Running("recv")
    /\ wsPc = "TermSendTabs"
    /\ \/ /\ HasRoom(tabsQ)
          /\ HasRoom(Len(requestQ))
          /\ tabsQ' = tabsQ + 1
          /\ wsEmit' = Append(wsEmit, <<"TabsRecv", <<"Terminated", wsMsg[2]>>>>)
          /\ wsPc' = "TermSendTerminated"
       \/ /\ wsPc' = "err"
          /\ UNCHANGED <<tabsQ, wsEmit>>
    /\ UNCHANGED <<wsFrame, available, tabTerminatedQ, shutdownQ, terminalRecvB>>
    /\ UNCHANGED <<wsMsg, wsAtDispatch, wsAtBorrow>>

\* tx_tabs.send(TabsRecv::Terminated(id)) completes
WsTermSendTabs ==
    /\ Running("recv")
    /\ wsPc = "TermSendTabs"
    /\ \/ /\ HasRoom(tabsQ)
          /\ tabsQ' = tabsQ + 1
          /\ wsEmit' = Append(wsEmit, <<"TabsRecv", <<"Terminated", wsMsg[2]>>>>)
          /\ wsPc' = "TermSendTerminated"
       \/ /\ wsPc' = "err"
          /\ UNCHANGED <<tabsQ, wsEmit>>
    /\ UNCHANGED <<wsFrame, available, tabTerminatedQ, shutdownQ, terminalRecvB>>
    /\ UNCHANGED <<wsMsg, wsAtDispatch, wsAtBorrow>>

\* (mutant) decides on the TabState latched when the response was taken
ShutdownDue_atDispatch(borrowed, dispatched, id) == is_selected(dispatched, id)

\* `if rx_tab_state.borrow().is_selected(&id)`: borrowed is the TabState latched
\* when the borrow runs (after the TabTerminated send), dispatched the one latched
\* when the response was taken
ShutdownDue(borrowed, dispatched, id) == is_selected(borrowed, id)

\* tx_tab_terminated.send(TabTerminated(id)) completes, then TabState is borrowed
WsTermSendTerminated ==
    /\ Running("recv")
    /\ wsPc = "TermSendTerminated"
    /\ \/ /\ HasRoom(tabTerminatedQ)
          /\ tabTerminatedQ' = tabTerminatedQ + 1
          /\ wsEmit' = Append(wsEmit, <<"TabTerminated", wsMsg[2]>>)
          /\ wsAtBorrow' = tabState
          /\ wsPc' = IF ShutdownDue(tabState, wsAtDispatch, wsMsg[2])
                     THEN "TermSendShutdown" ELSE "handled"
       \/ /\ wsPc' = "err"
          /\ UNCHANGED <<tabTerminatedQ, wsEmit, wsAtBorrow>>
    /\ UNCHANGED <<wsFrame, available, tabsQ, shutdownQ, terminalRecvB>>
    /\ UNCHANGED <<wsMsg, wsAtDispatch>>

\* tx_shutdown.send(MainShutdown {}) completes
WsTermSendShutdown ==
    /\ Running("recv")
    /\ wsPc = "TermSendShutdown"
    /\ \/ /\ HasRoom(shutdownQ)
          /\ shutdownQ' = shutdownQ + 1
          /\ wsEmit' = Append(wsEmit, <<"MainShutdown">>)
          /\ wsPc' = "handled"
       \/ /\ wsPc' = "err"
          /\ UNCHANGED <<shutdownQ, wsEmit>>
    /\ UNCHANGED <<wsFrame, available, tabsQ, tabTerminatedQ, terminalRecvB>>
    /\ UNCHANGED <<wsMsg, wsAtDispatch, wsAtBorrow>>

\* (mutant) the TabsRecv::Update send is not awaited: the loop returns to
\* rx_websocket.recv() with the send still pending
WsLoop_pendingSend ==
    /\ Running("recv")
    /\ wsPc \in {"handled", "UpdateSendTabs"}
    /\ wsPc' = "recv"
    /\ wsMsg' = NoMsg /\ wsAtDispatch' = NoMsg /\ wsAtBorrow' = NoMsg /\ wsEmit' = <<>>
    /\ UNCHANGED <<wsFrame, available, tabsQ, tabTerminatedQ, shutdownQ, terminalRecvB>>

\* the match arm is left and the loop returns to rx_websocket.recv()
WsLoop ==
    /\ Running("recv")
    /\ wsPc = "handled"
    /\ wsPc' = "recv"
    /\ wsMsg' = NoMsg /\ wsAtDispatch' = NoMsg /\ wsAtBorrow' = NoMsg /\ wsEmit' = <<>>
    /\ UNCHANGED <<wsFrame, available, tabsQ, tabTerminatedQ, shutdownQ, terminalRecvB>>

\* (mutant) the end of the Response stream is returned as an error
WsRecvClosed_asError ==
    /\ Running("recv")
    /\ wsPc = "recv"
    /\ wsPc' = "err"
    /\ UNCHANGED <<wsFrame, available, tabsQ, tabTerminatedQ, shutdownQ, terminalRecvB>>
    /\ UNCHANGED <<wsMsg, wsAtDispatch, wsAtBorrow, wsEmit>>

\* rx_websocket.recv() yields None (the Response stream ended): the loop ends and
\* the task returns Ok(())
WsRecvClosed ==
    /\ Running("recv")
    /\ wsPc = "recv"
    /\ wsPc' = "done"
    /\ UNCHANGED <<wsFrame, available, tabsQ, tabTerminatedQ, shutdownQ, terminalRecvB>>
    /\ UNCHANGED <<wsMsg, wsAtDispatch, wsAtBorrow, wsEmit>>

WsNext ==
    \/ WsRecvInit
    \/ WsInitSendTabs
    \/ WsRecvOutput
    \/ WsRecvTabUpdate
    \/ WsUpdateSendTabs
    \/ WsRecvTabList
    \/ WsRecvTabTerminated
    \/ WsTermSendTabs
    \/ WsTermSendTerminated
    \/ WsTermSendShutdown
    \/ WsLoop
    \/ WsRecvClosed

\* ------------------------------------------------------------- request_tab task
\* (TabRequester, ClientService::spawn)

reqFrame == <<tabState, terminalSize, rxTerminal, termLagged, wsVars, termVars, taskVars,
              available, tabsQ, tabTerminatedQ, shutdownQ, terminalRecvB>>

\* (mutant) requests a tab for every update that names one
CreateTabFor_anyTab(update, size) ==
    IF update[1] # "None" THEN <<<<"CreateTab", update[2], size>>>> ELSE <<>>

\* `if let TabState::Awaiting(name) = update`: the request for an update received
\* while the latched terminal size is size
CreateTabFor(update, size) ==
    IF update[1] = "Awaiting" THEN <<<<"CreateTab", update[2], size>>>> ELSE <<>>

\* rx_tab_state.recv() yields the latched value once per version it has not seen
\* (the first call yields the initial value); dimensions are borrowed at once
ReqRecv ==
    /\ Running("request_tab")
    /\ reqPc = "recv"
    /\ ~reqSeen
    /\ reqSeen' = TRUE
    /\ reqUpdate' = tabState
    /\ reqSize' = terminalSize
    /\ LET req == CreateTabFor(tabState, terminalSize) IN
       IF req = <<>>
       THEN /\ reqPc' = "handled"
            /\ reqPending' = NoMsg
       ELSE /\ reqPc' = "send"
            /\ reqPending' = req[1]
    /\ reqEmit' = <<>>
    /\ UNCHANGED <<reqFrame, requestQ>>

\* (mutant) once the request is sent the task resets TabState to None
ReqSend_resetsTabState ==
    /\ Running("request_tab")
    /\ reqPc = "send"
    /\ HasRoom(Len(requestQ))
    /\ requestQ' = Append(requestQ, reqPending)
    /\ reqEmit' = <<reqPending>>
    /\ reqPending' = NoMsg
    /\ reqPc' = "handled"
    /\ tabState' = TabStateNone
    /\ UNCHANGED <<terminalSize, rxTerminal, termLagged, wsVars, termVars, taskVars>>
    /\ UNCHANGED <<available, tabsQ, tabTerminatedQ, shutdownQ, terminalRecvB>>
    /\ UNCHANGED <<reqSeen, reqUpdate, reqSize>>

\* tx_request.send(Request::CreateTab(..)) completes
ReqSend ==
    /\ Running("request_tab")
    /\ reqPc = "send"
    /\ \/ /\ HasRoom(Len(requestQ))
          /\ requestQ' = Append(requestQ, reqPending)
          /\ reqEmit' = <<reqPending>>
          /\ reqPending' = NoMsg
          /\ reqPc' = "handled"
       \/ /\ reqPc' = "err"
          /\ UNCHANGED <<requestQ, reqEmit, reqPending>>
    /\ UNCHANGED <<reqFrame, reqSeen, reqUpdate, reqSize>>

\* the loop returns to rx_tab_state.recv()
ReqLoop ==
    /\ Running("request_tab")
    /\ reqPc = "handled"
    /\ reqPc' = "recv"
    /\ reqUpdate' = NoMsg /\ reqSize' = NoMsg /\ reqEmit' = <<>>
    /\ UNCHANGED <<reqFrame, requestQ, reqSeen, reqPending>>

\* rx_tab_state.recv() yields None (the selector's sender is gone): Ok(())
ReqRecvClosed ==
    /\ Running("request_tab")
    /\ reqPc = "recv"
    /\ reqPc' = "done"
    /\ UNCHANGED <<reqFrame, requestQ, reqSeen, reqUpdate, reqSize, reqPending, reqEmit>>

ReqNext ==
    \/ ReqRecv
    \/ ReqSend
    \/ ReqLoop
    \/ ReqRecvClosed

\* ------------------------------------------------------------- terminal task
\* (TerminalInputRouter, TerminalMessageService::spawn)

termFrame == <<tabState, reqSeen, terminalSize, wsVars, reqVars, taskVars,
               available, tabsQ, tabTerminatedQ, shutdownQ, terminalRecvB>>

ErrLagged == <<"Err", "Lagged">>
ErrClosed == <<"Err", "Closed">>

\* (mutant) forwards Stdin to the tab that TabState names, selected or awaited
RouteInput_awaited(ts, msg) ==
    IF ts[1] # "None" /\ msg[1] = "Stdin"
    THEN <<<<"Input", ts[2], msg[2]>>>> ELSE <<>>

\* `match (tab_state, msg)`: the request for event msg under TabState ts
RouteInput(ts, msg) ==
    IF ts[1] = "Selected" /\ msg[1] = "Stdin"
    THEN <<<<"Input", ts[2], msg[2]>>>> ELSE <<>>

\* `while let Ok(msg) = rx.recv().await`: what the loop does with the result of
\* recv (Ok(msg) is handled; any Err, Lagged included, ends the loop)
LoopOn(result) == IF result[1] = "Err" THEN "done" ELSE "dispatch"

\* rx.recv() yields Ok(msg), or Err(Lagged) when the receiver was overrun
TermRecv ==
    /\ Running("terminal")
    /\ termPc = "recv"
    /\ termLagged \/ rxTerminal # <<>>
    /\ LET result == IF termLagged THEN ErrLagged ELSE Head(rxTerminal)
           req == RouteInput(tabState, result) IN
       /\ termMsg' = result
       /\ termLagged' = FALSE
       /\ rxTerminal' = IF termLagged THEN rxTerminal ELSE Tail(rxTerminal)
       /\ IF LoopOn(result) = "done"
          THEN /\ termPc' = "done"
               /\ termAtDispatch' = NoMsg
               /\ termPending' = NoMsg
          ELSE /\ termAtDispatch' = tabState
               /\ IF req = <<>>
                  THEN /\ termPc' = "handled"
                       /\ termPending' = NoMsg
                  ELSE /\ termPc' = "send"
                       /\ termPending' = req[1]
    /\ termEmit' = <<>>
    /\ UNCHANGED <<termFrame, requestQ>>

\* (mutant) a failed send takes the other tasks of the service down with it
TermSend_failureStopsAll ==
    /\ Running("terminal")
    /\ termPc = "send"
    /\ \/ /\ HasRoom(Len(requestQ))
          /\ requestQ' = Append(requestQ, termPending)
          /\ termEmit' = <<termPending>>
          /\ termPending' = NoMsg
          /\ termPc' = "handled"
          /\ UNCHANGED cancelled
       \/ /\ termPc' = "err"
          /\ cancelled' = Tasks
          /\ UNCHANGED <<requestQ, termEmit, termPending>>
    /\ UNCHANGED <<tabState, reqSeen, terminalSize, wsVars, reqVars, scheduled, spawnPc, spawned>>
    /\ UNCHANGED <<available, tabsQ, tabTerminatedQ, shutdownQ, terminalRecvB>>
    /\ UNCHANGED <<rxTerminal, termLagged, termMsg, termAtDispatch>>

\* (mutant) the request is addressed to the tab selected when the send completes
TermSend_currentTab ==
    /\ Running("terminal")
    /\ termPc = "send"
    /\ HasRoom(Len(requestQ))
    /\ LET request == IF tabState[1] = "Selected"
                      THEN <<"Input", tabState[2], termPending[3]>>
                      ELSE termPending IN
       /\ requestQ' = Append(requestQ, request)
       /\ termEmit' = <<request>>
    /\ termPending' = NoMsg
    /\ termPc' = "handled"
    /\ UNCHANGED <<termFrame, rxTerminal, termLagged, termMsg, termAtDispatch>>

\* tx.send(request).await.context("Request send") completes
TermSend ==
    /\ Running("terminal")
    /\ termPc = "send"
    /\ \/ /\ HasRoom(Len(requestQ))
          /\ requestQ' = Append(requestQ, termPending)
          /\ termEmit' = <<termPending>>
          /\ termPending' = NoMsg
          /\ termPc' = "handled"
       \/ /\ termPc' = "err"
          /\ UNCHANGED <<requestQ, termEmit, termPending>>
    /\ UNCHANGED <<termFrame, rxTerminal, termLagged, termMsg, termAtDispatch>>

\* the loop returns to rx.recv()
TermLoop ==
    /\ Running("terminal")
    /\ termPc = "handled"
    /\ termPc' = "recv"
    /\ termMsg' = NoMsg /\ termAtDispatch' = NoMsg /\ termEmit' = <<>>
    /\ UNCHANGED <<termFrame, requestQ, rxTerminal, termLagged, termPending>>

\* rx.recv() yields Err(Closed) (every TerminalSend sender is gone and nothing is
\* retained): the loop ends, Ok(())
TermRecvClosed ==
    /\ Running("terminal")
    /\ termPc = "recv"
    /\ ~termLagged /\ rxTerminal = <<>>
    /\ termPc' = "done"
    /\ termMsg' = ErrClosed
    /\ UNCHANGED <<termFrame, requestQ, rxTerminal, termLagged, termAtDispatch,
                   termPending, termEmit>>

TermNext ==
    \/ TermRecv
    \/ TermSend
    \/ TermLoop
    \/ TermRecvClosed

\* ------------------------------------------------------------- service
\* (mutant) the service does not keep the request_tab lifeline
ClientServiceLifelines_noRequestTab == {"recv", "terminal"}

\* the lifelines a ClientService owns: _request_tab, _websocket._websocket and
\* _terminal._terminal
ClientServiceLifelines == {"request_tab", "recv", "terminal"}

\* dropping a lifeline cancels its task at the task's next suspension point
LifelineDrop(ts) == cancelled' = cancelled \cup ts

\* the ClientService is dropped, and its fields with it
DropClientService ==
    /\ spawnPc = "ok"
    /\ cancelled = {}
    /\ LifelineDrop(ClientServiceLifelines)
    /\ UNCHANGED <<envVars, chanVars, wsVars, reqVars, termVars, scheduled, spawnPc, spawned>>

\* ClientService::spawn, a step per spawned task.  Each `bus.rx::<M>()?` /
\* `bus.tx::<M>()?` of a step yields its endpoint or, when the bus does not carry
\* M, makes spawn return the error.
spawnFrame == <<envVars, chanVars, wsVars, reqVars, termVars, scheduled>>

\* (mutant) the lifelines spawn already holds are not dropped with its frame
SpawnLocals_detached(pc) == {}

\* the lifelines spawn holds in local variables while step pc runs: _request_tab
\* from line 35 on, _websocket from line 67 on
SpawnLocals(pc) ==
    CASE pc = "request_tab" -> {}
      [] pc = "websocket" -> {"request_tab"}
      [] pc = "terminal" -> {"request_tab", "recv"}

\* step pc of spawn: its endpoints are there and task t is spawned, or one is
\* missing and spawn returns Err, dropping its locals
SpawnStep(pc, t, next) ==
    /\ spawnPc = pc
    /\ \/ /\ spawned' = spawned \cup {t}
          /\ spawnPc' = next
          /\ UNCHANGED cancelled
       \/ /\ spawnPc' = "failed"
          /\ LifelineDrop(SpawnLocals(pc))
          /\ UNCHANGED spawned
    /\ UNCHANGED spawnFrame

\* `let _request_tab = { .. Self::try_task("request_tab", ..) }`
SpawnRequestTab == SpawnStep("request_tab", "request_tab", "websocket")

\* `let _websocket = WebsocketMessageService::spawn(bus)?`
SpawnWebsocket == SpawnStep("websocket", "recv", "terminal")

\* `let _terminal = TerminalMessageService::spawn(bus)?`, then Ok(ClientService {..})
SpawnTerminal == SpawnStep("terminal", "terminal", "ok")

\* ------------------------------------------------------------- environment

\* the selector publishes a TabState: the watch version advances, also for an
\* equal value
SelectorPublish ==
    /\ \E ts \in TabStates : tabState' = ts
    /\ reqSeen' = FALSE
    /\ UNCHANGED <<terminalSize, rxTerminal, termLagged>>
    /\ UNCHANGED <<chanVars, wsVars, termVars, taskVars>>
    /\ UNCHANGED reqVars

\* the terminal driver latches a new size
TerminalResize ==
    /\ \E s \in Sizes : s # terminalSize /\ terminalSize' = s
    /\ UNCHANGED <<tabState, reqSeen, rxTerminal, termLagged>>
    /\ UNCHANGED <<chanVars, wsVars, reqVars, termVars, taskVars>>

\* the consumers of the queued channels and the tty take their next message
TabsConsume ==
    /\ tabsQ > 0
    /\ tabsQ' = tabsQ - 1
    /\ UNCHANGED <<envVars, available, requestQ, tabTerminatedQ, shutdownQ, terminalRecvB>>
    /\ UNCHANGED <<wsVars, reqVars, termVars, taskVars>>

TabTerminatedConsume ==
    /\ tabTerminatedQ > 0
    /\ tabTerminatedQ' = tabTerminatedQ - 1
    /\ UNCHANGED <<envVars, available, requestQ, tabsQ, shutdownQ, terminalRecvB>>
    /\ UNCHANGED <<wsVars, reqVars, termVars, taskVars>>

ShutdownConsume ==
    /\ shutdownQ > 0
    /\ shutdownQ' = shutdownQ - 1
    /\ UNCHANGED <<envVars, available, requestQ, tabsQ, tabTerminatedQ, terminalRecvB>>
    /\ UNCHANGED <<wsVars, reqVars, termVars, taskVars>>

TerminalRecvConsume ==
    /\ terminalRecvB # <<>>
    /\ terminalRecvB' = Tail(terminalRecvB)
    /\ UNCHANGED <<envVars, available, requestQ, tabsQ, tabTerminatedQ, shutdownQ>>
    /\ UNCHANGED <<wsVars, reqVars, termVars, taskVars>>

RequestConsume ==
    /\ requestQ # <<>>
    /\ requestQ' = Tail(requestQ)
    /\ UNCHANGED <<envVars, available, tabsQ, tabTerminatedQ, shutdownQ, terminalRecvB>>
    /\ UNCHANGED <<wsVars, reqVars, termVars, taskVars>>

\* the terminal driver publishes an event: a receiver that already retains
\* CapBroadcast events loses the oldest one and is marked as lagging
TerminalPublish ==
    /\ \E ev \in TerminalSends :
         IF Len(rxTerminal) < CapBroadcast
         THEN /\ rxTerminal' = Append(rxTerminal, ev)
              /\ UNCHANGED termLagged
         ELSE /\ rxTerminal' = Append(Tail(rxTerminal), ev)
              /\ termLagged' = TRUE
    /\ UNCHANGED <<tabState, reqSeen, terminalSize>>
    /\ UNCHANGED <<chanVars, wsVars, reqVars, termVars, taskVars>>

\* the state once ClientService::spawn has returned, with task t the one polled
InitWith(t) ==
    /\ tabState = TabStateNone
    /\ reqSeen = FALSE
    /\ terminalSize = <<80, 24>>
    /\ available = <<>>
    /\ rxTerminal = <<>>
    /\ termLagged = FALSE
    /\ requestQ = <<>>
    /\ tabsQ = 0
    /\ tabTerminatedQ = 0
    /\ shutdownQ = 0
    /\ terminalRecvB = <<>>
    /\ cancelled = {}
    /\ spawnPc = "ok"
    /\ spawned = Tasks
    /\ scheduled = t
    /\ wsPc = "recv" /\ wsMsg = NoMsg /\ wsAtDispatch = NoMsg /\ wsAtBorrow = NoMsg
    /\ wsEmit = <<>> /\ wsLastTabList = <<>>
    /\ reqPc = "recv" /\ reqUpdate = NoMsg /\ reqSize = NoMsg /\ reqPending = NoMsg
    /\ reqEmit = <<>>
    /\ termPc = "recv" /\ termMsg = NoMsg /\ termAtDispatch = NoMsg
    /\ termPending = NoMsg /\ termEmit = <<>>

\* the recv task with its collaborators
InitWs == InitWith("recv")

NextWs ==
    \/ WsNext
    \/ SelectorPublish
    \/ TabsConsume
    \/ TabTerminatedConsume
    \/ ShutdownConsume
    \/ TerminalRecvConsume

SpecWs == InitWs /\ [][NextWs]_vars

\* the recv task under fair scheduling, started when request_tab has filled the
\* Request queue with CreateTab requests that the transport never takes, tab 1
\* has then been selected for good, and request_tab waits for the next TabState.
\* The scheduler polls the recv task whenever it can go on, and the consumers of
\* TabsRecv, TabTerminated and MainShutdown keep taking their messages.
InitWsFair ==
    /\ tabState = Selected(1)
    /\ reqSeen = TRUE
    /\ terminalSize = <<80, 24>>
    /\ available = <<>>
    /\ rxTerminal = <<>>
    /\ termLagged = FALSE
    /\ requestQ = [k \in 1..CapQueue |-> <<"CreateTab", "a", <<80, 24>>>>]
    /\ tabsQ = 0
    /\ tabTerminatedQ = 0
    /\ shutdownQ = 0
    /\ terminalRecvB = <<>>
    /\ cancelled = {}
    /\ spawnPc = "ok"
    /\ spawned = Tasks
    /\ scheduled = "recv"
    /\ wsPc = "recv" /\ wsMsg = NoMsg /\ wsAtDispatch = NoMsg /\ wsAtBorrow = NoMsg
    /\ wsEmit = <<>> /\ wsLastTabList = <<>>
    /\ reqPc = "recv" /\ reqUpdate = NoMsg /\ reqSize = NoMsg /\ reqPending = NoMsg
    /\ reqEmit = <<>>
    /\ termPc = "recv" /\ termMsg = NoMsg /\ termAtDispatch = NoMsg
    /\ termPending = NoMsg /\ termEmit = <<>>

\* a step of the recv task that is not the failure of a send or the end of the
\* Response stream
WsProgress == WsNext /\ wsPc' \notin {"err", "done"}

NextWsFair ==
    \/ WsNext
    \/ TabsConsume
    \/ TabTerminatedConsume
    \/ ShutdownConsume
    \/ TerminalRecvConsume

SpecWsFair ==
    /\ InitWsFair
    /\ [][NextWsFair]_vars
    /\ WF_vars(WsProgress)
    /\ WF_vars(TabsConsume)
    /\ WF_vars(TabTerminatedConsume)
    /\ WF_vars(ShutdownConsume)

\* the request_tab task with its collaborators
InitReq == InitWith("request_tab")

NextReq ==
    \/ ReqNext
    \/ SelectorPublish
    \/ TerminalResize
    \/ RequestConsume

SpecReq == InitReq /\ [][NextReq]_vars

\* the terminal task with its collaborators
InitTerm == InitWith("terminal")

NextTerm ==
    \/ TermNext
    \/ SelectorPublish
    \/ TerminalPublish
    \/ RequestConsume

SpecTerm == InitTerm /\ [][NextTerm]_vars

\* ClientService::spawn from its first line, with request_tab polled as soon as
\* it is spawned
InitSpawn ==
    /\ tabState = TabStateNone
    /\ reqSeen = FALSE
    /\ terminalSize = <<80, 24>>
    /\ available = <<>>
    /\ rxTerminal = <<>>
    /\ termLagged = FALSE
    /\ requestQ = <<>>
    /\ tabsQ = 0
    /\ tabTerminatedQ = 0
    /\ shutdownQ = 0
    /\ terminalRecvB = <<>>
    /\ cancelled = {}
    /\ spawnPc = "request_tab"
    /\ spawned = {}
    /\ scheduled = "request_tab"
    /\ wsPc = "recv" /\ wsMsg = NoMsg /\ wsAtDispatch = NoMsg /\ wsAtBorrow = NoMsg
    /\ wsEmit = <<>> /\ wsLastTabList = <<>>
    /\ reqPc = "recv" /\ reqUpdate = NoMsg /\ reqSize = NoMsg /\ reqPending = NoMsg
    /\ reqEmit = <<>>
    /\ termPc = "recv" /\ termMsg = NoMsg /\ termAtDispatch = NoMsg
    /\ termPending = NoMsg /\ termEmit = <<>>

NextSpawn ==
    \/ SpawnRequestTab
    \/ SpawnWebsocket
    \/ SpawnTerminal
    \/ NextReq

SpecSpawn == InitSpawn /\ [][NextSpawn]_vars

\* the request_tab and terminal tasks polled in any order, with their
\* collaborators: both send on the Request queue
InitReqTerm == InitWith("request_tab, terminal")

NextReqTerm ==
    \/ ReqNext
    \/ TermNext
    \/ SelectorPublish
    \/ TerminalPublish
    \/ RequestConsume

SpecReqTerm == InitReqTerm /\ [][NextReqTerm]_vars

\* the runs of the two tasks that share the Request queue, and those of recv
InitIndep == InitReqTerm \/ InitWs

NextIndep ==
    \/ scheduled = "request_tab, terminal" /\ NextReqTerm
    \/ scheduled = "recv" /\ NextWs

SpecIndep == InitIndep /\ [][NextIndep]_vars

\* any of the three tasks, and the drop of the service
Init == \E t \in Tasks : InitWith(t)

Next ==
    \/ scheduled = "recv" /\ NextWs
    \/ scheduled = "request_tab" /\ NextReq
    \/ scheduled = "terminal" /\ NextTerm
    \/ DropClientService

Spec == Init /\ [][Next]_vars

\* ------------------------------------------------------------- properties
\* the messages of emission list es that went to channel ch
OnChannel(es, ch) == SelectSeq(es, LAMBDA e : e[1] = ch)

\* C1: once a response is handled, the TerminalRecv messages emitted for it are
\* exactly one Stdout(data) when it is an Output(tab_id, data) taken while
\* TabState was Selected(tab_id, _), and none otherwise: an Output for another
\* tab emits nothing, and no later response of any kind emits it either.
C1_OutputRouting ==
    wsPc = "handled" =>
        OnChannel(wsEmit, "TerminalRecv") =
            IF /\ wsMsg[1] = "Output"
               /\ wsAtDispatch[1] = "Selected"
               /\ wsAtDispatch[2] = wsMsg[2]
            THEN <<<<"TerminalRecv", <<"Stdout", wsMsg[3]>>>>>>
            ELSE <<>>

C1_Witness ==
    /\ wsPc = "handled"
    /\ wsMsg[1] = "Output"
    /\ wsEmit = <<<<"TerminalRecv", <<"Stdout", wsMsg[3]>>>>>>
    /\ terminalRecvB # <<>>

\* C2 (as claimed): for a handled TabTerminated(id), MainShutdown was emitted
\* iff TabState was Selected(id, _) when the response was taken.
C2_ShutdownIffSelectedAtDispatch ==
    (wsPc = "handled" /\ wsMsg[1] = "TabTerminated") =>
        (OnChannel(wsEmit, "MainShutdown") # <<>>
            <=> (wsAtDispatch[1] = "Selected" /\ wsAtDispatch[2] = wsMsg[2]))

\* C2 (amended): for a handled response, exactly one MainShutdown was emitted when
\* it is a TabTerminated(id) and the TabState borrowed after the TabTerminated(id)
\* send was Selected(id, _); none was emitted in any other case.
C2_ShutdownIffSelectedAtBorrow ==
    wsPc = "handled" =>
        OnChannel(wsEmit, "MainShutdown") =
            IF /\ wsMsg[1] = "TabTerminated"
               /\ wsAtBorrow[1] = "Selected"
               /\ wsAtBorrow[2] = wsMsg[2]
            THEN <<<<"MainShutdown">>>>
            ELSE <<>>

C2_Witness ==
    /\ wsPc = "handled"
    /\ wsMsg[1] = "TabTerminated"
    /\ wsAtDispatch # wsAtBorrow
    /\ wsAtBorrow = Selected(wsMsg[2])
    /\ OnChannel(wsEmit, "MainShutdown") # <<>>

\* C3: a handled TabTerminated(id) emitted TabsRecv::Terminated(id), then
\* TabTerminated(id), each once, and after them at most a MainShutdown.
C3_TerminatedOrder ==
    (wsPc = "handled" /\ wsMsg[1] = "TabTerminated") =>
        \/ wsEmit = << <<"TabsRecv", <<"Terminated", wsMsg[2]>>>>,
                       <<"TabTerminated", wsMsg[2]>> >>
        \/ wsEmit = << <<"TabsRecv", <<"Terminated", wsMsg[2]>>>>,
                       <<"TabTerminated", wsMsg[2]>>,
                       <<"MainShutdown">> >>

C3_Witness ==
    /\ wsPc = "handled"
    /\ wsMsg[1] = "TabTerminated"
    /\ Len(wsEmit) = 3
    /\ wsEmit[3] = <<"MainShutdown">>

\* C4: a handled TabUpdate(meta) emitted TabMetadata(meta), then
\* TabsRecv::Update(meta), and nothing else.
C4_UpdateOrder ==
    (wsPc = "handled" /\ wsMsg[1] = "TabUpdate") =>
        wsEmit = << <<"TabMetadata", wsMsg[2]>>, <<"TabsRecv", <<"Update", wsMsg[2]>>>> >>

C4_Witness ==
    /\ wsPc = "handled"
    /\ wsMsg[1] = "TabUpdate"
    /\ Len(wsEmit) = 2

\* C7: a handled Init{tabs} emitted TabsRecv::Init(tabs) first, and after it one
\* TabMetadata per tab of tabs, each exactly once; this is so for every Init.
C7_InitRepublishes ==
    (wsPc = "handled" /\ wsMsg[1] = "Init") =>
        /\ Len(wsEmit) = 1 + Cardinality(DOMAIN wsMsg[2])
        /\ wsEmit[1] = <<"TabsRecv", <<"Init", wsMsg[2]>>>>
        /\ \A i \in DOMAIN wsMsg[2] :
             Cardinality({k \in 2..Len(wsEmit) :
                            wsEmit[k] = <<"TabMetadata", wsMsg[2][i]>>}) = 1

C7_Witness ==
    /\ wsPc = "handled"
    /\ wsMsg[1] = "Init"
    /\ DOMAIN wsMsg[2] = TabIds
    /\ Len(wsEmit) = 3
    /\ tabsQ = CapQueue

\* C8: TabStateAvailable holds the tabs of the last TabList the router handled
\* (the initial value before any): no response of another kind changes it, and
\* a TabList replaces it.
C8_AvailableIsLastTabList == available = wsLastTabList

C8_Witness ==
    /\ wsPc = "recv"
    /\ wsLastTabList # <<>>
    /\ available = wsLastTabList

\* C5 (as claimed): no published Awaiting(n) goes without its CreateTab: the
\* value stays latched until request_tab, while it runs, has received it.
C5_EveryAwaitingPublicationReceived ==
    [][(/\ tabState[1] = "Awaiting"
        /\ ~reqSeen
        /\ Running("request_tab")
        /\ reqPc \in {"recv", "send", "handled"})
       => tabState' = tabState]_vars

\* C5 (amended): an update that request_tab received and handled emitted exactly
\* one CreateTab{name = n, dimensions = the size latched at the receive} when it
\* was Awaiting(n), and nothing otherwise.
C5_CreateTabPerReceivedAwaiting ==
    /\ reqPc = "handled" =>
         reqEmit = IF reqUpdate[1] = "Awaiting"
                   THEN <<<<"CreateTab", reqUpdate[2], reqSize>>>>
                   ELSE <<>>
    /\ reqPc = "send" =>
         /\ reqUpdate[1] = "Awaiting"
         /\ reqPending = <<"CreateTab", reqUpdate[2], reqSize>>

C5_Witness ==
    /\ reqPc = "handled"
    /\ reqEmit # <<>>
    /\ tabState # reqUpdate
    /\ requestQ = reqEmit

\* C6: a handled TerminalSend event emitted exactly one Input(id, data) when it
\* was Stdin(data) taken while TabState was Selected(id, _), and nothing otherwise.
C6_InputRouting ==
    /\ termPc = "handled" =>
         termEmit = IF termMsg[1] = "Stdin" /\ termAtDispatch[1] = "Selected"
                    THEN <<<<"Input", termAtDispatch[2], termMsg[2]>>>>
                    ELSE <<>>
    /\ termPc = "send" =>
         /\ termMsg[1] = "Stdin" /\ termAtDispatch[1] = "Selected"
         /\ termPending = <<"Input", termAtDispatch[2], termMsg[2]>>

C6_Witness ==
    /\ termPc = "handled"
    /\ termEmit # <<>>
    /\ tabState[1] # "Selected"

\* C9: once the ClientService is dropped no task takes a step: no position or
\* emission record changes, no queue or broadcast gains a message, no latched
\* value is written and no input is received.
C9_DropCancelsAll ==
    [][cancelled # {} =>
         /\ UNCHANGED <<wsVars, reqVars, termVars, available>>
         /\ requestQ' = requestQ \/ (requestQ # <<>> /\ requestQ' = Tail(requestQ))
         /\ terminalRecvB' = terminalRecvB
               \/ (terminalRecvB # <<>> /\ terminalRecvB' = Tail(terminalRecvB))
         /\ tabsQ' <= tabsQ /\ tabTerminatedQ' <= tabTerminatedQ /\ shutdownQ' <= shutdownQ
         /\ reqSeen' => reqSeen
         /\ Len(rxTerminal') >= Len(rxTerminal)]_vars

C9_Witness ==
    /\ cancelled = Tasks
    /\ wsPc = "TermSendShutdown"
    /\ HasRoom(shutdownQ)

\* C10 (as claimed): an overrun of the terminal task's TerminalSend receiver does
\* not end the task.
C10_LagNonFatal == ~(termPc = "done" /\ termMsg = ErrLagged)

\* the output channels of the recv task gain no message in this step
WsOutputsQuiet ==
    /\ UNCHANGED available
    /\ tabsQ' <= tabsQ /\ tabTerminatedQ' <= tabTerminatedQ /\ shutdownQ' <= shutdownQ
    /\ terminalRecvB' = terminalRecvB
          \/ (terminalRecvB # <<>> /\ terminalRecvB' = Tail(terminalRecvB))

\* the Request queue gains no request of kind k in this step
RequestQuiet(k) ==
    Len(requestQ') > Len(requestQ) => requestQ'[Len(requestQ')][1] # k

\* C11: a task whose send failed is in its error state, where it stays: it takes
\* no further input, emits nothing more and never reaches the success state; the
\* sub-action that failed and the ones after it were not performed.
C11_SendErrorAborts ==
    /\ [](wsPc = "err" =>
            /\ OnChannel(wsEmit, "MainShutdown") = <<>>
            /\ wsMsg[1] \in {"Output", "TabList"} => wsEmit = <<>>
            /\ wsMsg[1] = "TabUpdate" => Len(wsEmit) <= 1
            /\ wsMsg[1] = "TabTerminated" => Len(wsEmit) <= 2
            /\ wsMsg[1] = "Init" => Len(wsEmit) <= Cardinality(DOMAIN wsMsg[2]))
    /\ [](reqPc = "err" => reqEmit = <<>> /\ reqPending[1] = "CreateTab")
    /\ [](termPc = "err" => termEmit = <<>> /\ termPending[1] = "Input")
    /\ [][/\ wsPc = "err" => UNCHANGED wsVars /\ WsOutputsQuiet
          /\ reqPc = "err" =>
                UNCHANGED reqVars /\ RequestQuiet("CreateTab") /\ (reqSeen' => reqSeen)
          /\ termPc = "err" =>
                /\ UNCHANGED termVars /\ RequestQuiet("Input")
                /\ Len(rxTerminal') >= Len(rxTerminal) /\ (termLagged => termLagged')]_vars

C11_Witness ==
    /\ wsPc = "err"
    /\ wsMsg[1] = "TabTerminated"
    /\ Len(wsEmit) = 2
    /\ HasRoom(shutdownQ)

\* C12: the end of a task's input stream is seen at its receive only, with no
\* input in progress, and gives the success state, never the error state; in the
\* success state the task takes no input and emits nothing.
C12_ClosureIsSuccess ==
    /\ [](wsPc = "done" => wsMsg = NoMsg /\ wsEmit = <<>>)
    /\ [](reqPc = "done" => reqUpdate = NoMsg /\ reqPending = NoMsg /\ reqEmit = <<>>)
    /\ [](termPc = "done" => termPending = NoMsg /\ termEmit = <<>>)
    /\ [](wsPc = "err" => wsMsg # NoMsg)
    /\ [](reqPc = "err" => reqUpdate # NoMsg)
    /\ [](termPc = "err" => termMsg[1] = "Stdin")
    /\ [][/\ wsPc = "done" => UNCHANGED wsVars /\ WsOutputsQuiet
          /\ reqPc = "done" =>
                UNCHANGED reqVars /\ RequestQuiet("CreateTab") /\ (reqSeen' => reqSeen)
          /\ termPc = "done" =>
                /\ UNCHANGED termVars /\ RequestQuiet("Input")
                /\ Len(rxTerminal') >= Len(rxTerminal) /\ (termLagged => termLagged')]_vars

C12_Witness ==
    /\ termPc = "done"
    /\ termMsg = ErrClosed
    /\ requestQ # <<>>

\* C13: when spawn has returned an error no spawned task is left running, and
\* from then on no task takes a step; a ClientService exists only when all three
\* steps of spawn succeeded.
C13_SpawnFailureLeavesNoTask ==
    /\ [](spawnPc = "failed" => \A t \in Tasks : ~Running(t))
    /\ [](spawnPc = "ok" <=> spawned = Tasks)
    /\ [][spawnPc = "failed" =>
            /\ UNCHANGED <<spawnPc, spawned, cancelled, wsVars, reqVars, termVars>>
            /\ RequestQuiet("CreateTab") /\ (reqSeen' => reqSeen)]_vars

C13_Witness ==
    /\ spawnPc = "failed"
    /\ spawned = {"request_tab", "recv"}
    /\ reqPc = "send"
    /\ HasRoom(Len(requestQ))

\* the number of messages the sub-actions of response msg emit, when TabState was
\* dispatched at its take and borrowed at its borrow
EmitCount(msg, dispatched, borrowed) ==
    CASE msg[1] = "Init" -> 1 + Cardinality(DOMAIN msg[2])
      [] msg[1] = "Output" -> IF is_selected(dispatched, msg[2]) THEN 1 ELSE 0
      [] msg[1] = "TabUpdate" -> 2
      [] msg[1] = "TabList" -> 1
      [] msg[1] = "TabTerminated" -> IF is_selected(borrowed, msg[2]) THEN 3 ELSE 2

\* C14: the router takes a response only when it handles none, and lets go of
\* the one it handles only when all its sub-actions are done; every message that
\* reaches an output channel is emitted for the response being handled and
\* extends that response's emissions.  So the emissions of two responses never
\* interleave, also when a send waits on a full queue.
C14_ResponsesNotInterleaved ==
    /\ [](wsPc = "recv" => wsMsg = NoMsg /\ wsEmit = <<>>)
    /\ [][/\ wsMsg' # wsMsg =>
                \/ /\ wsPc = "recv" /\ wsMsg = NoMsg /\ wsEmit = <<>>
                   /\ wsMsg' \in Responses
                \/ /\ wsPc = "handled" /\ wsPc' = "recv" /\ wsMsg' = NoMsg
                   /\ Len(wsEmit) = EmitCount(wsMsg, wsAtDispatch, wsAtBorrow)
          /\ wsEmit' # wsEmit =>
                \/ wsMsg' = NoMsg /\ wsEmit' = <<>>
                \/ /\ wsMsg' \in Responses
                   /\ Len(wsEmit') > Len(wsEmit)
                   /\ SubSeq(wsEmit', 1, Len(wsEmit)) = wsEmit
          /\ ~WsOutputsQuiet =>
                wsMsg' \in Responses /\ Len(wsEmit') > Len(wsEmit)]_vars

C14_Witness ==
    /\ wsPc = "TermSendTerminated"
    /\ ~HasRoom(tabTerminatedQ)
    /\ Len(wsEmit) = 1

\* C15: a step in which a task moves, receives or emits leaves TabState and
\* TerminalSizeState as they are (the handling of a TabTerminated for the
\* selected tab included), and a step that changes either of them changes
\* nothing of the tasks or of their output channels: it is the selector's or
\* the terminal driver's.
C15_TasksOnlyReadLatchedState ==
    [][/\ (\/ wsVars' # wsVars \/ reqVars' # reqVars \/ termVars' # termVars
           \/ chanVars' # chanVars \/ taskVars' # taskVars
           \/ (reqSeen' /\ ~reqSeen) \/ Len(rxTerminal') < Len(rxTerminal))
          => UNCHANGED <<tabState, terminalSize>>
       /\ (tabState' # tabState \/ terminalSize' # terminalSize)
          => UNCHANGED <<wsVars, reqVars, termVars, chanVars, taskVars>>]_vars

C15_Witness ==
    /\ wsPc = "handled"
    /\ wsMsg[1] = "TabTerminated"
    /\ wsAtDispatch = wsAtBorrow
    /\ tabState = Selected(wsMsg[2])
    /\ wsAtBorrow = tabState
    /\ shutdownQ > 0

\* C16 (as claimed): forwarding a Stdout chunk waits for room, so the chunks that
\* the tty has not taken yet are all still there once the new one is emitted.
C16_StdoutNeverDropped ==
    [][(wsEmit' # wsEmit /\ OnChannel(wsEmit', "TerminalRecv") # <<>>)
         => terminalRecvB' = Append(terminalRecvB, wsEmit'[1][2])]_vars

\* C17: a Stdout is emitted only in the step that takes an Output(tab_id, data),
\* once, with that data, and only if TabState is Selected(tab_id, _) in that
\* step; TerminalRecv changes only by that chunk being added behind the ones
\* already there or by its consumer taking the first one.  The emitted chunks
\* are therefore a subsequence of the Output payloads in their order of arrival.
C17_StdoutFollowsOutputOrder ==
    [][/\ (wsEmit' # wsEmit /\ OnChannel(wsEmit', "TerminalRecv") # <<>>) =>
            /\ wsMsg = NoMsg
            /\ wsMsg'[1] = "Output"
            /\ is_selected(tabState, wsMsg'[2])
            /\ wsEmit' = <<<<"TerminalRecv", <<"Stdout", wsMsg'[3]>>>>>>
       /\ terminalRecvB' # terminalRecvB =>
            \/ terminalRecvB # <<>> /\ terminalRecvB' = Tail(terminalRecvB)
            \/ /\ wsMsg = NoMsg
               /\ wsMsg'[1] = "Output"
               /\ is_selected(tabState, wsMsg'[2])
               /\ \/ terminalRecvB' = Append(terminalRecvB, <<"Stdout", wsMsg'[3]>>)
                  \/ /\ terminalRecvB # <<>>
                     /\ terminalRecvB' = Append(Tail(terminalRecvB), <<"Stdout", wsMsg'[3]>>)]_vars

C17_Witness ==
    /\ wsPc = "handled"
    /\ wsMsg[1] = "Output"
    /\ wsEmit = <<>>
    /\ tabState[1] = "Selected"
    /\ terminalRecvB # <<>>

\* C18: the terminal task takes its events from the head of its receiver, one at
\* a time, and lets go of an event only when its request, if it has one, is
\* sent; the Request queue changes only at its ends: its consumer takes the
\* first request, the terminal task adds Input(id, data) for the Stdin(data) it
\* is handling, with id the tab selected when that event was taken, and
\* request_tab adds its CreateTab.  So the Inputs are queued in the order of their
\* Stdin events, once each, whatever request_tab sends in between.
C18_InputOrderAndAddress ==
    [][/\ requestQ' # requestQ =>
            \/ requestQ # <<>> /\ requestQ' = Tail(requestQ)
            \/ /\ termPc = "send" /\ termPc' = "handled"
               /\ termMsg[1] = "Stdin"
               /\ termAtDispatch[1] = "Selected"
               /\ requestQ' = Append(requestQ, <<"Input", termAtDispatch[2], termMsg[2]>>)
               /\ termEmit' = <<<<"Input", termAtDispatch[2], termMsg[2]>>>>
               /\ UNCHANGED reqVars
            \/ /\ reqPc = "send" /\ reqPc' = "handled"
               /\ requestQ' = Append(requestQ, <<"CreateTab", reqUpdate[2], reqSize>>)
               /\ UNCHANGED termVars
       /\ termMsg' # termMsg =>
            \/ /\ termPc = "handled" /\ termMsg' = NoMsg
               /\ Len(termEmit) = IF termMsg[1] = "Stdin" /\ termAtDispatch[1] = "Selected"
                                  THEN 1 ELSE 0
            \/ /\ termPc = "recv" /\ termMsg = NoMsg
               /\ \/ termMsg' \in {ErrLagged, ErrClosed}
                  \/ /\ rxTerminal # <<>>
                     /\ termMsg' = Head(rxTerminal)
                     /\ rxTerminal' = Tail(rxTerminal)
                     /\ termAtDispatch' = tabState]_vars

C18_Witness ==
    /\ termPc = "handled"
    /\ termEmit # <<>>
    /\ requestQ = termEmit
    /\ reqPc = "send"
    /\ tabState # termAtDispatch

\* a task has ended, with an error or with success
Ended(pc) == pc \in {"err", "done"}

\* C19: the step in which a task ends changes nothing of the other tasks: it
\* cancels none, alters no state of theirs and sends no MainShutdown; and with a
\* task ended, a sibling still takes the input that is there for it and completes
\* the send it is suspended on as soon as the queue has room.
C19_TasksFailIndependently ==
    /\ [][/\ (termPc' # termPc /\ Ended(termPc')) =>
                UNCHANGED <<taskVars, reqVars, wsVars, shutdownQ, reqSeen>>
          /\ (reqPc' # reqPc /\ Ended(reqPc')) =>
                UNCHANGED <<taskVars, termVars, wsVars, shutdownQ, rxTerminal, termLagged>>
          /\ (wsPc' # wsPc /\ Ended(wsPc')) =>
                UNCHANGED <<taskVars, reqVars, termVars, shutdownQ, requestQ, reqSeen,
                            rxTerminal, termLagged>>]_vars
    /\ [](Ended(termPc) =>
            /\ Running("request_tab") /\ Running("recv")
            /\ (reqPc = "recv" /\ ~reqSeen) => ENABLED ReqRecv
            /\ (reqPc = "send" /\ HasRoom(Len(requestQ))) => ENABLED ReqSend
            /\ reqPc = "handled" => ENABLED ReqLoop)
    /\ [](Ended(reqPc) =>
            /\ Running("terminal") /\ Running("recv")
            /\ (termPc = "recv" /\ rxTerminal # <<>>) => ENABLED TermRecv
            /\ (termPc = "send" /\ HasRoom(Len(requestQ))) => ENABLED TermSend
            /\ termPc = "handled" => ENABLED TermLoop)
    /\ [](Ended(wsPc) =>
            /\ Running("request_tab") /\ Running("terminal")
            /\ (reqPc = "recv" /\ ~reqSeen) => ENABLED ReqRecv
            /\ (termPc = "recv" /\ rxTerminal # <<>>) => ENABLED TermRecv)

C19_Witness ==
    /\ termPc = "err"
    /\ reqPc = "send"
    /\ HasRoom(Len(requestQ))
    /\ ENABLED ReqSend

\* C20: with TabState staying Selected(id, _), a TabTerminated(id) that the
\* router has taken leads to the MainShutdown being emitted for it, unless a
\* send fails; the full Request queue and the other two tasks, which never move,
\* do not hold it up.
C20_TerminatedLeadsToShutdown ==
    (wsPc = "TermSendTabs" /\ is_selected(tabState, wsMsg[2]))
        ~> (OnChannel(wsEmit, "MainShutdown") # <<>> \/ wsPc = "err")

C20_Witness ==
    /\ wsPc = "handled"
    /\ wsMsg[1] = "TabTerminated"
    /\ OnChannel(wsEmit, "MainShutdown") # <<>>
    /\ ~HasRoom(Len(requestQ))
    /\ reqPc = "recv" /\ termPc = "recv"
=============================================================================
